---- MODULE Spec2Model ----
(***************************************************************************)
(* Model of the ADAS opportunity-mapping pipeline: the orchestrator        *)
(* MasterOpportunityAgent.run_full_analysis (orchestrator/master_agent.py) *)
(* with its per-stage result persistence (_save_agent_result).             *)
(*                                                                         *)
(* One run is one sequential coroutine.  Its steps are split where the     *)
(* outside world can look at it: at the await on a stage worker and at     *)
(* every chunk json.dump writes to a result file.                          *)
(***************************************************************************)
EXTENDS Integers, Sequences, FiniteSets, TLC

(***************************************************************************)
(* Configuration fixed by the constructor.                                 *)
(***************************************************************************)
execution_order ==
    << "source_discovery", "market_size", "trends_simplification",
       "competitive_landscape", "pain_point_extraction",
       "compute_architecture", "bottleneck_diagnosis", "gap_analysis",
       "positioning_messaging", "visualization_reporting" >>

NumStages == Len(execution_order)

Stages == { execution_order[i] : i \in 1..NumStages }

IndexOf(a) == CHOOSE i \in 1..NumStages : execution_order[i] = a

(***************************************************************************)
(* Bounds of the model.                                                    *)
(***************************************************************************)
\* stages of one run that are out of the ordinary: missing from the agents
\* dict, with a result file that cannot be written, or with a response that
\* is not JSON
MaxAnomalies == 1
\* number of values in a stage document
DocLen == 2

(***************************************************************************)
(* Documents and their JSON encoding.                                      *)
(***************************************************************************)
NoEntry == [kind |-> "no_entry"]        \* key not in the dict
Absent == [kind |-> "empty_dict"]       \* the {} stored for a failed stage
ErrorResult == [kind |-> "error_dict"]  \* {'error': str(e)}
NoDoc == [kind |-> "none"]

\* a path of the reports directory: no file there, or a file and what has
\* been written to it so far
NoFile == [exists |-> FALSE, content |-> << >>]

FileWith(chunks) == [exists |-> TRUE, content |-> chunks]

\* value kinds: JSON-native, datetime, and a value json cannot serialize
ValueKinds == {"str", "datetime", "set"}

\* DateTimeEncoder: datetime -> isoformat string, anything else unknown to
\* json raises TypeError
CanEncode(v) == v \in {"str", "datetime"}

EncodeValue(v) == IF v = "datetime" THEN "isostr" ELSE v

\* the documents a stage worker returns in this model: DocLen values, at most
\* one of them not serializable
WorkerValues ==
    { vs \in [1..DocLen -> {"str", "set"}] :
        Cardinality({ i \in 1..DocLen : vs[i] = "set" }) <= 1 }

Documents(a) == { [producer |-> a, values |-> vs] : vs \in WorkerValues }

AllDocuments == UNION { Documents(a) : a \in Stages }

Serializable(doc) == \A i \in 1..Len(doc.values) : CanEncode(doc.values[i])

\* the chunks json.dump hands to fp.write for a dict document, in order
JsonChunks(doc) ==
    << "{" >> \o [i \in 1..Len(doc.values) |-> EncodeValue(doc.values[i])]
              \o << "}" >>

\* chunk k of the dump can be produced: the braces always, a value only
\* when the encoder knows its type
ChunkEncodes(doc, k) ==
    IF k = 1 \/ k = Len(doc.values) + 2
    THEN TRUE
    ELSE CanEncode(doc.values[k - 1])

\* what a reader needs to parse a file: a whole JSON object
IsCompleteJson(content) ==
    /\ Len(content) >= 2
    /\ content[1] = "{"
    /\ content[Len(content)] = "}"

(***************************************************************************)
(* State.                                                                  *)
(***************************************************************************)
VARIABLES
    agents,           \* self.agents: the registered stage workers
    pc,               \* position of run_full_analysis
    idx,              \* position of the for loop in execution_order
    context,          \* context[f'{agent_name}_data']
    results,          \* results[agent_name]
    execution_log,    \* execution_log
    agents_executed,  \* agents_executed
    agents_failed,    \* agents_failed
    agent_result,     \* agent_result of the current iteration
    reports,          \* outputs/reports/{agent}_result_{timestamp}.json
    summary,          \* the summary dict built after the loop
    summary_file,     \* outputs/reports/execution_summary_{timestamp}.json
    inflight,         \* stage workers whose execute() has not returned yet
    invoked,          \* instrumentation: order in which execute() was called
    produced,         \* instrumentation: the document each worker returned
    save_failed       \* instrumentation: stages whose result save raised

vars == << agents, pc, idx, context, results, execution_log, agents_executed,
           agents_failed, agent_result, reports, summary, summary_file,
           inflight, invoked, produced, save_failed >>

current == execution_order[idx]

VARIABLES
    malformed         \* instrumentation: stages whose worker got a response
                      \* that is not JSON

RegisteredSets ==
    { A \in SUBSET Stages : Cardinality(Stages \ A) <= MaxAnomalies }

\* one more save of this run may fail within the bound
SaveMayFail ==
    Cardinality(Stages \ agents) + Cardinality(save_failed)
        + Cardinality(malformed) < MaxAnomalies

(***************************************************************************)
(* State outside one run_full_analysis: the wall clock, the files under    *)
(* outputs/, and the callers of the orchestrator and of ArchiveManager.    *)
(***************************************************************************)
VARIABLES
    clock,            \* datetime.now() at the resolution of "%Y%m%d_%H%M%S"
    run_timestamps,   \* `timestamp` of each run_full_analysis, in run order
    rs_pc,            \* position of the current run_full_analysis
    rs_idx,           \* position of its for loop in execution_order
    rs_failed,        \* stages of the current run whose execute() raised
    outputs,          \* files under outputs/reports and outputs/visualizations
    save_log,         \* instrumentation: the _save_agent_result calls made
    rt_doc,           \* the document handed to _save_agent_result
    rt_file,          \* the file _save_agent_result wrote for it
    rt_read,          \* what load_latest_results got from json.load
    rt_pc,            \* "new", "saved", "rejected", "read", "unreadable"
    archive_dirs,     \* the run_{timestamp} folders under outputs/archives
    archived,         \* the files inside those folders
    am_pc,            \* position of archive_previous_run: "idle", "moving"
    am_target,        \* archive_folder of the call in progress
    am_todo,          \* files of the two glob lists not moved yet
    am_ret,           \* what the last ArchiveManager call returned
    last_call,        \* instrumentation: the last call and the state before
    live_writes,      \* number of files written under outputs/ so far
    main_pc,          \* position of main() of the invocation in progress
    run_timestamp,    \* run_timestamp of main()
    args,             \* the parsed command line of the invocation
    mains,            \* invocations of the program so far
    run_begun,        \* instrumentation: this invocation called the pipeline
    single_log,       \* instrumentation: execute() calls and save_result
                      \* files of this invocation's single-agent path
    citation,         \* the citation dict handed to the validators
    sr_result,        \* what SourceRules.validate_citation returned for it
    sv_result         \* what SourceValidator.validate_url returned for its url

runVars == << clock, run_timestamps, rs_pc, rs_idx, rs_failed, outputs,
              save_log >>

storeVars == << rt_doc, rt_file, rt_read, rt_pc >>

archVars == << archive_dirs, archived, am_pc, am_target, am_todo, am_ret,
               last_call, live_writes >>

mainVars == << main_pc, run_timestamp, args, mains, run_begun, single_log >>

rulesVars == << citation, sr_result, sv_result >>

envVars ==
    << runVars, storeVars, archVars, mainVars, rulesVars, malformed >>

\* what the actions of a run leave alone
outsideRun == << vars, storeVars, archVars, rulesVars, malformed >>

\* what saving and loading one document leave alone
outsideStore ==
    << vars, runVars, archVars, mainVars, rulesVars, malformed >>

\* what ArchiveManager and the writers of outputs/ leave alone
outsideArchive == << vars, storeVars, rulesVars, malformed, clock,
                     run_timestamps, rs_pc, rs_idx, rs_failed, save_log >>

\* return values of the ArchiveManager methods
NoCall == [kind |-> "no_call"]
Pending == [kind |-> "pending"]
ReturnedNone == [kind |-> "none"]
Raised == [kind |-> "raised"]
Handle(ts) == [kind |-> "handle", run |-> ts]

CallRecord(op, arg, files, dirs, arch) ==
    [op |-> op, arg |-> arg, outputs |-> files, dirs |-> dirs,
     archived |-> arch]

\* ArchiveManager() constructed over empty outputs/archives
ArchVarsInit ==
    /\ archive_dirs = {}
    /\ archived = {}
    /\ am_pc = "idle"
    /\ am_target = 1
    /\ am_todo = {}
    /\ am_ret = NoCall
    /\ last_call = CallRecord("none", 1, {}, {}, {})
    /\ live_writes = 0

RunVarsInit ==
    /\ clock = 1
    /\ run_timestamps = << >>
    /\ rs_pc = "idle"
    /\ rs_idx = 1
    /\ rs_failed = 0
    /\ outputs = {}
    /\ save_log = << >>

\* no document is being saved or loaded
StoreVarsIdle ==
    /\ rt_doc = NoDoc
    /\ rt_file = NoFile
    /\ rt_read = NoDoc
    /\ rt_pc = "idle"

\* the program has not been started yet
MainVarsInit ==
    /\ main_pc = "start"
    /\ run_timestamp = 1
    /\ args = [no_archive |-> FALSE, keep_archives |-> 1, agent |-> ""]
    /\ mains = 0
    /\ run_begun = FALSE
    /\ single_log = [calls |-> << >>, written |-> {}]

NotValidated == [kind |-> "not_called"]

\* no citation is being validated
RulesVarsIdle ==
    /\ citation = [url |-> << >>, claim |-> FALSE, date_accessed |-> FALSE,
                   keys |-> {}]
    /\ sr_result = NotValidated
    /\ sv_result = NotValidated

EnvInit ==
    /\ RunVarsInit
    /\ StoreVarsIdle
    /\ ArchVarsInit
    /\ MainVarsInit
    /\ RulesVarsIdle

\* the state of the orchestrator before run_full_analysis is called
PipelineInit ==
    /\ pc = "init"
    /\ idx = 1
    /\ context = [a \in Stages |-> NoEntry]
    /\ results = [a \in Stages |-> NoEntry]
    /\ execution_log = << >>
    /\ agents_executed = 0
    /\ agents_failed = 0
    /\ agent_result = NoDoc
    /\ reports = [a \in Stages |-> NoFile]
    /\ summary = NoDoc
    /\ summary_file = NoFile
    /\ inflight = {}
    /\ malformed = {}
    /\ invoked = << >>
    /\ produced = [a \in Stages |-> NoDoc]
    /\ save_failed = {}

Init ==
    /\ agents \in RegisteredSets
    /\ PipelineInit
    /\ EnvInit

(***************************************************************************)
(* Pieces of the loop body.                                                *)
(***************************************************************************)
\* faulty variant: the success is not appended to the log
LogSuccess_Dropped(log, a) == log

\* execution_log.append({... 'success': True ...})
LogSuccess(log, a) == Append(log, [agent |-> a, success |-> TRUE])

\* faulty variant: the failure is not appended to the log
LogFailure_Dropped(log, a) == log

\* execution_log.append({... 'success': False, 'error': str(e)})
LogFailure(log, a) == Append(log, [agent |-> a, success |-> FALSE])

\* context[f'{agent_name}_data'] = agent_result
ContextStore(ctx, a, doc) == [ctx EXCEPT ![a] = doc]

\* faulty variant: the failed stage's context entry is left as it is
ContextAbsent_Missing(ctx, a) == ctx

\* faulty variant: the context is started afresh for the stages to come
ContextAbsent_Reset(ctx, a) ==
    [b \in Stages |-> IF b = a THEN Absent ELSE NoEntry]

\* context[f'{agent_name}_data'] = {}
ContextAbsent(ctx, a) == [ctx EXCEPT ![a] = Absent]

\* faulty variant: the membership test is left out
IsRegistered_Always(a, registered) == TRUE

\* the guard of the loop's `continue`
IsRegistered(a, registered) == a \in registered

\* the loop variable after one more iteration
NextIndex(i) == i + 1

\* faulty variant: the except clause does not count the failure
HandleException_NotCounted(a) ==
    /\ execution_log' = LogFailure(execution_log, a)
    /\ agents_failed' = agents_failed
    /\ context' = ContextAbsent(context, a)
    /\ results' = [results EXCEPT ![a] = ErrorResult]
    /\ agent_result' = NoDoc
    /\ idx' = NextIndex(idx)
    /\ pc' = "loop"

\* faulty variant: the except clause leaves the loop (break)
HandleException_Break(a) ==
    /\ execution_log' = LogFailure(execution_log, a)
    /\ agents_failed' = agents_failed + 1
    /\ context' = ContextAbsent(context, a)
    /\ results' = [results EXCEPT ![a] = ErrorResult]
    /\ agent_result' = NoDoc
    /\ idx' = NumStages + 1
    /\ pc' = "loop"

\* faulty variant: the except clause runs the same stage again
HandleException_Retry(a) ==
    /\ execution_log' = LogFailure(execution_log, a)
    /\ agents_failed' = agents_failed + 1
    /\ context' = ContextAbsent(context, a)
    /\ results' = [results EXCEPT ![a] = ErrorResult]
    /\ agent_result' = NoDoc
    /\ idx' = idx
    /\ pc' = "loop"

\* faulty variant: no except clause, the exception leaves run_full_analysis
HandleException_Propagates(a) ==
    /\ pc' = "aborted"
    /\ agent_result' = NoDoc
    /\ UNCHANGED << execution_log, agents_failed, context, results, idx >>

\* the except clause of the loop body followed by the next iteration
HandleException(a) ==
    /\ execution_log' = LogFailure(execution_log, a)
    /\ agents_failed' = agents_failed + 1
    /\ context' = ContextAbsent(context, a)
    /\ results' = [results EXCEPT ![a] = ErrorResult]
    /\ agent_result' = NoDoc
    /\ idx' = NextIndex(idx)
    /\ pc' = "loop"

\* the entries of the summary's results_files comprehension
ResultsFiles(res) == { a \in Stages : res[a] # NoEntry }

(***************************************************************************)
(* Actions of run_full_analysis.                                           *)
(***************************************************************************)
\* run_full_analysis up to the for loop
StartRun ==
    /\ pc = "init"
    /\ pc' = "loop"
    /\ idx' = 1
    /\ context' = [a \in Stages |-> NoEntry]
    /\ results' = [a \in Stages |-> NoEntry]
    /\ execution_log' = << >>
    /\ agents_executed' = 0
    /\ agents_failed' = 0
    /\ UNCHANGED << agents, agent_result, reports, summary, summary_file,
                    inflight, invoked, produced, save_failed >>
    /\ UNCHANGED envVars

\* a stage of the order that is not in self.agents: warning and continue
SkipStage ==
    /\ pc = "loop"
    /\ idx <= NumStages
    /\ ~IsRegistered(current, agents)
    /\ idx' = NextIndex(idx)
    /\ UNCHANGED << agents, pc, context, results, execution_log,
                    agents_executed, agents_failed, agent_result, reports,
                    summary, summary_file, inflight, invoked, produced,
                    save_failed >>
    /\ UNCHANGED envVars

\* await agent.execute(context): the call
InvokeWorker ==
    /\ pc = "loop"
    /\ idx <= NumStages
    /\ IsRegistered(current, agents)
    /\ pc' = "await"
    /\ inflight' = inflight \cup {current}
    /\ invoked' = Append(invoked, current)
    /\ UNCHANGED << agents, idx, context, results, execution_log,
                    agents_executed, agents_failed, agent_result, reports,
                    summary, summary_file, produced, save_failed >>
    /\ UNCHANGED envVars

\* execute() returns a document: it is stored in the context and in results,
\* and _save_agent_result is entered
WorkerReturns ==
    /\ pc = "await"
    /\ \E doc \in Documents(current) :
        /\ Serializable(doc) \/ SaveMayFail
        /\ agent_result' = doc
        /\ context' = ContextStore(context, current, doc)
        /\ results' = [results EXCEPT ![current] = doc]
        /\ produced' = [produced EXCEPT ![current] = doc]
    /\ inflight' = inflight \ {current}
    /\ pc' = "save_open"
    /\ UNCHANGED << agents, idx, execution_log, agents_executed,
                    agents_failed, reports, summary, summary_file, invoked,
                    save_failed >>
    /\ UNCHANGED envVars

\* _parse_*: except json.JSONDecodeError returns this dict, a document of
\* strings
ParseFailed(a) == [producer |-> a, values |-> [i \in 1..DocLen |-> "str"]]

\* execute() on a response that is not JSON: the parse failure is returned
\* as a dict, validation finds no sources to object to, and the dict is the
\* stage's result
ParseFailure(a) ==
    /\ agent_result' = ParseFailed(a)
    /\ context' = ContextStore(context, a, ParseFailed(a))
    /\ results' = [results EXCEPT ![a] = ParseFailed(a)]
    /\ produced' = [produced EXCEPT ![a] = ParseFailed(a)]
    /\ pc' = "save_open"
    /\ UNCHANGED << idx, execution_log, agents_failed >>

\* the worker's response does not parse
WorkerResponseMalformed ==
    /\ pc = "await"
    /\ SaveMayFail
    /\ malformed' = malformed \cup {current}
    /\ inflight' = inflight \ {current}
    /\ ParseFailure(current)
    /\ UNCHANGED << agents, agents_executed, reports, summary, summary_file,
                    invoked, save_failed >>
    /\ UNCHANGED << runVars, storeVars, archVars, mainVars, rulesVars >>

\* execute() raises: the except clause
WorkerRaises ==
    /\ pc = "await"
    /\ inflight' = inflight \ {current}
    /\ HandleException(current)
    /\ UNCHANGED << agents, agents_executed, reports, summary, summary_file,
                    invoked, produced, save_failed >>
    /\ UNCHANGED envVars

\* _save_agent_result: mkdir and open(output_file, 'w') create an empty file
SaveOpen ==
    /\ pc = "save_open"
    /\ reports' = [reports EXCEPT ![current] = FileWith(<< >>)]
    /\ pc' = "save_write"
    /\ UNCHANGED << agents, idx, context, results, execution_log,
                    agents_executed, agents_failed, agent_result, summary,
                    summary_file, inflight, invoked, produced, save_failed >>
    /\ UNCHANGED envVars

\* _save_agent_result: the storage is unavailable, mkdir or open raises
SaveOpenFails ==
    /\ pc = "save_open"
    /\ SaveMayFail
    /\ save_failed' = save_failed \cup {current}
    /\ HandleException(current)
    /\ UNCHANGED << agents, agents_executed, reports, summary, summary_file,
                    inflight, invoked, produced >>
    /\ UNCHANGED envVars

\* json.dump: the next chunk is encoded and written to the open file
SaveWrite ==
    /\ pc = "save_write"
    /\ LET k == Len(reports[current].content) + 1
           chunks == JsonChunks(agent_result)
       IN /\ k <= Len(chunks)
          /\ ChunkEncodes(agent_result, k)
          /\ reports' = [reports EXCEPT
                            ![current].content = Append(@, chunks[k])]
    /\ UNCHANGED << agents, pc, idx, context, results, execution_log,
                    agents_executed, agents_failed, agent_result, summary,
                    summary_file, inflight, invoked, produced, save_failed >>
    /\ UNCHANGED envVars

\* json.dump raises in the middle (a value that cannot be serialized, or the
\* storage fails): the with block closes the file as far as it was written
SaveWriteFails ==
    /\ pc = "save_write"
    /\ LET k == Len(reports[current].content) + 1
           chunks == JsonChunks(agent_result)
       IN /\ k <= Len(chunks)
          /\ \/ ~ChunkEncodes(agent_result, k)
             \/ SaveMayFail
    /\ save_failed' = save_failed \cup {current}
    /\ HandleException(current)
    /\ UNCHANGED << agents, agents_executed, reports, summary, summary_file,
                    inflight, invoked, produced >>
    /\ UNCHANGED envVars

\* faulty variant: the success is logged while the file is being written
SaveComplete_NotAwaited(file, doc) == TRUE

\* _save_agent_result has returned: the whole document is in the file
SaveComplete(file, doc) == file.content = JsonChunks(doc)

\* json.dump is through, the file is closed, _save_agent_result returns and
\* the success is logged and counted
SaveReturns ==
    /\ pc = "save_write"
    /\ SaveComplete(reports[current], agent_result)
    /\ execution_log' = LogSuccess(execution_log, current)
    /\ agents_executed' = agents_executed + 1
    /\ agent_result' = NoDoc
    /\ idx' = NextIndex(idx)
    /\ pc' = "loop"
    /\ UNCHANGED << agents, context, results, agents_failed, reports,
                    summary, summary_file, inflight, invoked, produced,
                    save_failed >>
    /\ UNCHANGED envVars

\* after the loop: metadata and summary are compiled
CompileSummary ==
    /\ pc = "loop"
    /\ idx > NumStages
    /\ summary' = [agents_executed |-> agents_executed,
                   agents_failed |-> agents_failed,
                   execution_log |-> execution_log,
                   results_files |-> ResultsFiles(results)]
    /\ pc' = "summary"
    /\ UNCHANGED << agents, idx, context, results, execution_log,
                    agents_executed, agents_failed, agent_result, reports,
                    summary_file, inflight, invoked, produced, save_failed >>
    /\ UNCHANGED envVars

\* the summary file is written and full_analysis is returned
WriteSummary ==
    /\ pc = "summary"
    /\ summary_file' = FileWith(<< summary >>)
    /\ pc' = "done"
    /\ UNCHANGED << agents, idx, context, results, execution_log,
                    agents_executed, agents_failed, agent_result, reports,
                    summary, inflight, invoked, produced, save_failed >>
    /\ UNCHANGED envVars

\* writing the summary file raises: the exception leaves run_full_analysis
WriteSummaryFails ==
    /\ pc = "summary"
    /\ summary_file' = FileWith(<< >>)
    /\ pc' = "aborted"
    /\ UNCHANGED << agents, idx, context, results, execution_log,
                    agents_executed, agents_failed, agent_result, reports,
                    summary, inflight, invoked, produced, save_failed >>
    /\ UNCHANGED envVars

Next ==
    \/ StartRun
    \/ SkipStage
    \/ InvokeWorker
    \/ WorkerReturns
    \/ WorkerRaises
    \/ WorkerResponseMalformed
    \/ SaveOpen
    \/ SaveOpenFails
    \/ SaveWrite
    \/ SaveWriteFails
    \/ SaveReturns
    \/ CompileSummary
    \/ WriteSummary
    \/ WriteSummaryFails

Spec == Init /\ [][Next]_vars

\* the coroutine is always resumed, and a called worker returns or raises
FairSpec == Spec /\ WF_vars(Next)

(***************************************************************************)
(* Vocabulary of the properties.                                           *)
(***************************************************************************)
Logged(a) == \E i \in 1..Len(execution_log) : execution_log[i].agent = a

LoggedSuccess(a) ==
    \E i \in 1..Len(execution_log) :
        execution_log[i].agent = a /\ execution_log[i].success

LoggedFailure(a) ==
    \E i \in 1..Len(execution_log) :
        execution_log[i].agent = a /\ ~execution_log[i].success

\* number of log entries with the given success flag
CountSuccess(log, flag) ==
    Cardinality({ i \in 1..Len(log) : log[i].success = flag })

WasInvoked(a) == \E i \in 1..Len(invoked) : invoked[i] = a

\* the registered stages among the first n of the execution order, in order
RegisteredPrefix(n) ==
    SelectSeq(SubSeq(execution_order, 1, n), LAMBDA a : a \in agents)

LoggedAgents == [i \in 1..Len(execution_log) |-> execution_log[i].agent]

RunEnded == pc \in {"summary", "done", "aborted"}

\* the result file of stage a holds the whole document the worker returned
ResultWritten(a) ==
    /\ reports[a].exists
    /\ produced[a] # NoDoc
    /\ reports[a].content = JsonChunks(produced[a])

(***************************************************************************)
(* C1: while the worker of a stage is in flight, every registered stage    *)
(* before it in the order has its outcome in the execution log and, if     *)
(* that outcome is a success, its complete result file on disk; and at     *)
(* most one worker is in flight.                                           *)
(***************************************************************************)
C1_StrictlySequential ==
    /\ Cardinality(inflight) <= 1
    /\ \A a \in inflight :
         \A j \in 1..(IndexOf(a) - 1) :
            execution_order[j] \in agents =>
               /\ Logged(execution_order[j])
               /\ LoggedSuccess(execution_order[j]) =>
                     ResultWritten(execution_order[j])

C1_Witness ==
    /\ inflight = {"trends_simplification"}
    /\ LoggedSuccess("source_discovery")
    /\ ResultWritten("source_discovery")
    /\ LoggedFailure("market_size")

(***************************************************************************)
(* C2: a failed stage does not stop the run: every registered stage after  *)
(* a failed one that the loop has passed was invoked, at run end every     *)
(* registered stage was invoked, and the failed count (the running counter *)
(* and the one in the summary) is the number of success=false log entries. *)
(***************************************************************************)
C2_FailureIsolation ==
    /\ agents_failed = CountSuccess(execution_log, FALSE)
    /\ \A k \in 1..NumStages :
         LoggedFailure(execution_order[k]) =>
            \A m \in (k + 1)..NumStages :
               (execution_order[m] \in agents /\ (m < idx \/ RunEnded))
                  => WasInvoked(execution_order[m])
    /\ RunEnded =>
         /\ \A a \in agents : WasInvoked(a)
         /\ summary.agents_failed = CountSuccess(summary.execution_log, FALSE)

C2_Witness ==
    /\ pc = "done"
    /\ LoggedFailure("source_discovery")
    /\ LoggedFailure("gap_analysis")
    /\ LoggedSuccess("visualization_reporting")
    /\ summary.agents_failed = 2

(***************************************************************************)
(* C3: a result that cannot be persisted aborts the run: the stage is not  *)
(* logged as an ordinary failed stage, no later stage is invoked and the   *)
(* run does not return a summary.                                          *)
(***************************************************************************)
C3_SaveFailureAborts ==
    \A a \in save_failed :
        /\ ~LoggedFailure(a)
        /\ \A i \in 1..Len(invoked) : IndexOf(invoked[i]) <= IndexOf(a)
        /\ pc # "done"

(***************************************************************************)
(* C4: the workers are invoked in the configured order, each registered    *)
(* stage once: the invocations so far are the registered stages the loop   *)
(* has reached, in order, and at run end all registered stages.            *)
(***************************************************************************)
C4_ExactlyOnceInOrder ==
    /\ pc \in {"init", "loop"} =>
          invoked = RegisteredPrefix(idx - 1)
    /\ pc \in {"await", "save_open", "save_write"} =>
          invoked = RegisteredPrefix(idx)
    /\ RunEnded => invoked = RegisteredPrefix(NumStages)

C4_Witness ==
    /\ pc = "done"
    /\ invoked = execution_order
    /\ LoggedFailure("market_size")
    /\ LoggedSuccess("trends_simplification")
    /\ save_failed # {}

(***************************************************************************)
(* C5: while the worker of stage k is in flight, the context holds for     *)
(* every registered earlier stage the document its worker returned if the  *)
(* stage is logged as succeeded and the empty dict if it is logged as      *)
(* failed, and no entry for stage k, later stages and unregistered stages. *)
(* With all ten stages registered and exactly stage 4 failing, the summary *)
(* counts 9 succeeded and 1 failed.                                        *)
(***************************************************************************)
C5_ContextSeenByWorker ==
    /\ \A a \in inflight :
         \A j \in 1..NumStages :
            LET b == execution_order[j]
            IN IF j < IndexOf(a) /\ b \in agents
               THEN /\ LoggedSuccess(b) =>
                         (context[b] = produced[b] /\ context[b] \in Documents(b))
                    /\ LoggedFailure(b) => context[b] = Absent
                    /\ LoggedSuccess(b) \/ LoggedFailure(b)
               ELSE context[b] = NoEntry
    /\ ( /\ pc = "done"
         /\ agents = Stages
         /\ \A j \in 1..NumStages : LoggedFailure(execution_order[j]) <=> j = 4 )
       => summary.agents_executed = 9 /\ summary.agents_failed = 1

C5_Witness ==
    /\ inflight = {"pain_point_extraction"}
    /\ \A j \in 1..3 : context[execution_order[j]] \in Documents(execution_order[j])
    /\ context["competitive_landscape"] = Absent
    /\ context["pain_point_extraction"] = NoEntry

(***************************************************************************)
(* C6: when the coroutine keeps being resumed and every worker returns or  *)
(* raises, the run ends; it ends aborted only when writing the summary     *)
(* file failed, never because stages failed; and a run that ends done has  *)
(* a summary whose counts are those of the log.                            *)
(***************************************************************************)
C6_RunCompletes ==
    /\ <>(pc = "done" \/ pc = "aborted")
    /\ [](pc = "aborted" =>
            (summary_file.exists /\ ~IsCompleteJson(summary_file.content)
             /\ idx > NumStages))
    /\ [](pc = "done" =>
            /\ summary.agents_executed = CountSuccess(execution_log, TRUE)
            /\ summary.agents_failed = CountSuccess(execution_log, FALSE)
            /\ summary.agents_executed + summary.agents_failed
                  = Cardinality(agents)
            /\ summary.execution_log = execution_log)

C6_Witness ==
    /\ pc = "done"
    /\ summary.agents_failed = NumStages
    /\ summary.agents_executed = 0

(***************************************************************************)
(* C7: a document recorded in the context under its stage's name stays     *)
(* there unchanged for the rest of the run.                                *)
(***************************************************************************)
C7_ContextOnlyGrows ==
    [][\A a \in Stages :
          context[a] \in Documents(a) => context'[a] = context[a]]_vars

(***************************************************************************)
(* C8: a stage of the order without a registered worker is skipped: it is  *)
(* never invoked, gets no log entry, no result and no context entry, the   *)
(* two counters count registered stages only, and the registered stages    *)
(* after it are still invoked.                                             *)
(***************************************************************************)
C8_UnregisteredSkipped ==
    /\ \A a \in Stages \ agents :
         /\ ~WasInvoked(a)
         /\ ~Logged(a)
         /\ results[a] = NoEntry
         /\ context[a] = NoEntry
         /\ ~reports[a].exists
         /\ \A m \in (IndexOf(a) + 1)..NumStages :
               (execution_order[m] \in agents /\ (m < idx \/ RunEnded))
                  => WasInvoked(execution_order[m])
    /\ agents_executed + agents_failed = Len(RegisteredPrefix(idx - 1))
    /\ RunEnded =>
          summary.agents_executed + summary.agents_failed = Cardinality(agents)

C8_Witness ==
    /\ pc = "done"
    /\ "market_size" \notin agents
    /\ WasInvoked("trends_simplification")
    /\ WasInvoked("visualization_reporting")
    /\ summary.agents_executed + summary.agents_failed = NumStages - 1

(***************************************************************************)
(* C9, as claimed: at run end the log has one outcome for every stage of   *)
(* the configured order, skipped stages included, in stage order.          *)
(***************************************************************************)
C9_OneOutcomePerStage ==
    RunEnded => LoggedAgents = execution_order

(***************************************************************************)
(* C9, amended: the log never holds two outcomes for one stage, and at run *)
(* end it holds one outcome for every registered stage, in stage order,    *)
(* and none for a skipped stage.                                           *)
(***************************************************************************)
C9_OneOutcomePerRegisteredStage ==
    /\ \A i, j \in 1..Len(execution_log) :
          execution_log[i].agent = execution_log[j].agent => i = j
    /\ RunEnded =>
          /\ LoggedAgents = RegisteredPrefix(NumStages)
          /\ summary.execution_log = execution_log

C9_Witness ==
    /\ pc = "done"
    /\ "source_discovery" \notin agents
    /\ Len(execution_log) = NumStages - 1
    /\ LoggedFailure("market_size")
    /\ LoggedSuccess("trends_simplification")

(***************************************************************************)
(* C10: a reader of the reports directory never finds a result file that   *)
(* is only partly written.                                                 *)
(***************************************************************************)
C10_NoPartialFile ==
    \A a \in Stages : reports[a].exists => IsCompleteJson(reports[a].content)

(***************************************************************************)
(* Runs of run_full_analysis against the wall clock and outputs/.  Several *)
(* runs follow each other, as successive invocations of the program do.    *)
(***************************************************************************)
MaxClock == 2
MaxRuns == 2
MaxStageFailures == 1

\* the run in progress, or the last one
this_run == Len(run_timestamps)

\* `timestamp` of run_full_analysis in the run in progress
timestamp == run_timestamps[this_run]

\* outputs/reports/{agent_name}_result_{timestamp}.json
ResultName(agent_name, ts) ==
    [dir |-> "reports", stem |-> << agent_name, "result" >>, ts |-> ts]

\* outputs/reports/execution_summary_{timestamp}.json
SummaryName(ts) ==
    [dir |-> "reports", stem |-> << "execution_summary" >>, ts |-> ts]

\* the files VisualizationReportingAgent.execute writes, in its order
VizFiles ==
    << [dir |-> "visualizations", stem |-> << "market_size" >>],
       [dir |-> "reports", stem |-> << "trends_analysis" >>],
       [dir |-> "reports", stem |-> << "competitive_landscape" >>],
       [dir |-> "reports", stem |-> << "gap_analysis" >>],
       [dir |-> "reports", stem |-> << "executive_summary" >> ] >>

VizName(k, ts) ==
    [dir |-> VizFiles[k].dir, stem |-> VizFiles[k].stem, ts |-> ts]

\* open(path, 'w') and dump: a file of that name is replaced
WriteFile(files, name, doc, run) ==
    {f \in files : f.name # name}
        \cup {[name |-> name, doc |-> doc, run |-> run]}

\* the document a stage of a run returns
RunDocument(agent_name, run) == [producer |-> agent_name, run |-> run]

\* _save_agent_result(agent_name, result, timestamp)
SaveAgentResult(files, agent_name, result, ts, run) ==
    WriteFile(files, ResultName(agent_name, ts), result, run)

RECURSIVE VizWrites(_, _, _, _)
\* the first k files of VisualizationReportingAgent.execute, all named with
\* the timestamp the agent takes itself when execute starts
VizWrites(files, k, ts, run) ==
    IF k = 0 THEN files
    ELSE WriteFile(VizWrites(files, k - 1, ts, run), VizName(k, ts),
                   [producer |-> "visualization_reporting", run |-> run],
                   run)

\* what execute() of a stage leaves under outputs/ after writing k files
ExecuteWrites(files, agent_name, k, run) ==
    IF agent_name = "visualization_reporting"
    THEN VizWrites(files, k, clock, run)
    ELSE files

rs_current == execution_order[rs_idx]

\* timestamp = datetime.now().strftime("%Y%m%d_%H%M%S"), once per run
RunStart ==
    /\ rs_pc = "idle"
    /\ this_run < MaxRuns
    /\ run_timestamps' = Append(run_timestamps, clock)
    /\ rs_pc' = "loop"
    /\ rs_idx' = 1
    /\ rs_failed' = 0
    /\ UNCHANGED << clock, outputs, save_log >>
    /\ UNCHANGED outsideRun

\* one iteration of the loop whose execute() returns: the result is saved
StageSucceeds ==
    /\ rs_pc = "loop"
    /\ rs_idx <= NumStages
    /\ LET a == rs_current
           doc == RunDocument(a, this_run)
           written == ExecuteWrites(outputs, a, Len(VizFiles), this_run)
       IN /\ outputs' = SaveAgentResult(written, a, doc, timestamp, this_run)
          /\ save_log' = Append(save_log,
                 [name |-> ResultName(a, timestamp), doc |-> doc,
                  run |-> this_run])
    /\ rs_idx' = rs_idx + 1
    /\ UNCHANGED << clock, run_timestamps, rs_pc, rs_failed >>
    /\ UNCHANGED outsideRun

\* one iteration whose execute() raises: nothing is saved by the loop, the
\* files execute() wrote before raising stay
StageFails ==
    /\ rs_pc = "loop"
    /\ rs_idx <= NumStages
    /\ rs_failed < MaxStageFailures
    /\ \E k \in 0 .. (Len(VizFiles) - 1) :
          /\ (k > 0 => rs_current = "visualization_reporting")
          /\ outputs' = ExecuteWrites(outputs, rs_current, k, this_run)
    /\ rs_failed' = rs_failed + 1
    /\ rs_idx' = rs_idx + 1
    /\ UNCHANGED << clock, run_timestamps, rs_pc, save_log >>
    /\ UNCHANGED outsideRun

\* after the loop: execution_summary_{timestamp}.json, and the run returns
RunWritesSummary ==
    /\ rs_pc = "loop"
    /\ rs_idx > NumStages
    /\ outputs' = WriteFile(outputs, SummaryName(timestamp),
                            [producer |-> "summary", run |-> this_run],
                            this_run)
    /\ rs_pc' = "idle"
    /\ UNCHANGED << clock, run_timestamps, rs_idx, rs_failed, save_log >>
    /\ UNCHANGED outsideRun

\* a second of wall-clock time passes
Tick ==
    /\ clock < MaxClock
    /\ clock' = clock + 1
    /\ UNCHANGED << run_timestamps, rs_pc, rs_idx, rs_failed, outputs,
                    save_log >>
    /\ UNCHANGED outsideRun

RunInit ==
    /\ agents = Stages
    /\ PipelineInit
    /\ EnvInit

\* run_full_analysis called again and again, by any caller
RunNext ==
    \/ RunStart /\ UNCHANGED mainVars
    \/ StageSucceeds /\ UNCHANGED mainVars
    \/ StageFails /\ UNCHANGED mainVars
    \/ RunWritesSummary /\ UNCHANGED mainVars
    \/ Tick /\ UNCHANGED mainVars

RunSpec == RunInit /\ [][RunNext]_<< vars, envVars >>

(***************************************************************************)
(* Vocabulary of the properties about runs and their files.                *)
(***************************************************************************)
\* the _save_agent_result calls made so far for a file name
SavesOf(name) == {i \in DOMAIN save_log : save_log[i].name = name}

\* the document of the last _save_agent_result call for a file name
LastSaved(name) ==
    save_log[CHOOSE i \in SavesOf(name) : \A j \in SavesOf(name) : j <= i].doc

(***************************************************************************)
(* C11: every file a run writes into outputs/reports, the stage results    *)
(* and the execution summary included, carries in its name the timestamp   *)
(* that run took once, when it started.                                    *)
(***************************************************************************)
C11_OneTimestampPerRun ==
    \A f \in outputs :
        f.name.dir = "reports" => f.name.ts = run_timestamps[f.run]

(***************************************************************************)
(* C12: after any saves, each saved file name holds exactly one file, with *)
(* the document of the last save made under that name, and no two runs     *)
(* have saved under the same file name.                                    *)
(***************************************************************************)
C12_SaveIdempotentAndDisjoint ==
    /\ \A i \in DOMAIN save_log :
          /\ Cardinality({f \in outputs : f.name = save_log[i].name}) = 1
          /\ \A f \in outputs :
                f.name = save_log[i].name => f.doc = LastSaved(f.name)
    /\ \A i, j \in DOMAIN save_log :
          save_log[i].name = save_log[j].name
              => save_log[i].run = save_log[j].run

(***************************************************************************)
(* One document through _save_agent_result and back through json.load of   *)
(* load_latest_results.                                                    *)
(***************************************************************************)
\* the documents handed to _save_agent_result: DocLen values of any kind
StoredDocuments ==
    { [producer |-> a, values |-> vs] :
        a \in Stages, vs \in [1..DocLen -> ValueKinds] }

\* the chunks json.dump has written when it returns or raises
RECURSIVE DumpedPrefix(_, _)
DumpedPrefix(doc, k) ==
    IF k > Len(JsonChunks(doc)) \/ ~ChunkEncodes(doc, k)
    THEN << >>
    ELSE << JsonChunks(doc)[k] >> \o DumpedPrefix(doc, k + 1)

\* json.load of one value: a JSON string, an isoformat one too, is a str
ParseValue(chunk) == IF chunk = "isostr" THEN "str" ELSE chunk

\* json.load of a whole file written by json.dump
ParseJson(content) ==
    [i \in 1..(Len(content) - 2) |-> ParseValue(content[i + 1])]

\* _save_agent_result returns: json.dump wrote the whole document
StoreSave ==
    /\ rt_pc = "new"
    /\ Serializable(rt_doc)
    /\ rt_file' = FileWith(DumpedPrefix(rt_doc, 1))
    /\ rt_pc' = "saved"
    /\ UNCHANGED << rt_doc, rt_read >>
    /\ UNCHANGED outsideStore

\* _save_agent_result raises TypeError: json.dump met a value it cannot encode
StoreSaveRaises ==
    /\ rt_pc = "new"
    /\ ~Serializable(rt_doc)
    /\ rt_file' = FileWith(DumpedPrefix(rt_doc, 1))
    /\ rt_pc' = "rejected"
    /\ UNCHANGED << rt_doc, rt_read >>
    /\ UNCHANGED outsideStore

\* load_latest_results: results[agent_name] = json.load(f)
StoreLoad ==
    /\ rt_pc \in {"saved", "rejected"}
    /\ rt_file.exists
    /\ IsCompleteJson(rt_file.content)
    /\ rt_read' = [producer |-> rt_doc.producer,
                   values |-> ParseJson(rt_file.content)]
    /\ rt_pc' = "read"
    /\ UNCHANGED << rt_doc, rt_file >>
    /\ UNCHANGED outsideStore

\* load_latest_results: json.load raises on a truncated file, nothing loaded
StoreLoadFails ==
    /\ rt_pc \in {"saved", "rejected"}
    /\ rt_file.exists
    /\ ~IsCompleteJson(rt_file.content)
    /\ rt_pc' = "unreadable"
    /\ UNCHANGED << rt_doc, rt_file, rt_read >>
    /\ UNCHANGED outsideStore

StoreInit ==
    /\ agents = Stages
    /\ PipelineInit
    /\ RunVarsInit
    /\ ArchVarsInit
    /\ MainVarsInit
    /\ RulesVarsIdle
    /\ rt_doc \in StoredDocuments
    /\ rt_file = NoFile
    /\ rt_read = NoDoc
    /\ rt_pc = "new"

StoreNext ==
    \/ StoreSave
    \/ StoreSaveRaises
    \/ StoreLoad
    \/ StoreLoadFails

StoreSpec == StoreInit /\ [][StoreNext]_<< vars, envVars >>

(***************************************************************************)
(* C13: for every document _save_agent_result accepts, what json.load      *)
(* reads back from the written file equals the document, datetime values   *)
(* included.                                                               *)
(***************************************************************************)
C13_RoundTrip == rt_pc = "read" => rt_read = rt_doc

(***************************************************************************)
(* ArchiveManager over outputs/: archive_previous_run, clean_old_archives, *)
(* and the program writing new files between the calls.                    *)
(***************************************************************************)
MaxArchiveStamp == 3
MaxKeep == 2
MaxLiveWrites == 3

\* list(self.reports_dir.glob('*.json'))
LiveReports(files) == {f \in files : f.name.dir = "reports"}

\* list(self.viz_dir.glob('*.png'))
LiveVisualizations(files) == {f \in files : f.name.dir = "visualizations"}

\* files the program writes under outputs/ between two archive calls
LiveNames ==
    { ResultName(execution_order[1], clock), SummaryName(clock),
      VizName(1, clock) }

\* archive_folder / dir / file.name, with the content the file had
ArchivedFile(run, dir, f) ==
    [run |-> run, dir |-> dir,
     file |-> [stem |-> f.name.stem, ts |-> f.name.ts], doc |-> f.doc]

\* shutil.move(str(file), str(dest)): a file already at dest is replaced
MoveInto_WrongFolder(arch, run, dir, f) ==
    {x \in arch : ~(x.run = run /\ x.dir = "reports" /\ x.file = ArchivedFile(run, dir, f).file)}
        \cup {ArchivedFile(run, "reports", f)}

MoveInto(arch, run, dir, f) ==
    {x \in arch : ~(x.run = run /\ x.dir = dir /\ x.file = ArchivedFile(run, dir, f).file)}
        \cup {ArchivedFile(run, dir, f)}

\* the archive folders after the start of archive_previous_run: nothing to
\* archive returns before any mkdir
DirsAfterCall_MkdirFirst(dirs, files, ts) == dirs \cup {ts}

DirsAfterCall(dirs, files, ts) ==
    IF LiveReports(files) = {} /\ LiveVisualizations(files) = {}
    THEN dirs
    ELSE dirs \cup {ts}

RECURSIVE SortedRuns(_)
\* sorted(self.archive_dir.glob('run_*'))
SortedRuns(dirs) ==
    IF dirs = {} THEN << >>
    ELSE LET first == CHOOSE d \in dirs : \A o \in dirs : d <= o
         IN << first >> \o SortedRuns(dirs \ {first})

\* archive_runs[:-keep_last_n]; -0 is 0, so for 0 the slice is empty
ToDelete(archive_runs, keep_last_n) ==
    IF keep_last_n = 0
    THEN << >>
    ELSE SubSeq(archive_runs, 1, Len(archive_runs) - keep_last_n)

Elements(seq) == {seq[i] : i \in DOMAIN seq}

\* archive_previous_run up to the first move
ArchiveCall(ts) ==
    /\ am_pc = "idle"
    /\ last_call' = CallRecord("archive", ts, outputs, archive_dirs, archived)
    /\ archive_dirs' = DirsAfterCall(archive_dirs, outputs, ts)
    /\ IF LiveReports(outputs) = {} /\ LiveVisualizations(outputs) = {}
       THEN /\ am_ret' = ReturnedNone
            /\ UNCHANGED << am_pc, am_target, am_todo >>
       ELSE /\ am_ret' = Pending
            /\ am_pc' = "moving"
            /\ am_target' = ts
            /\ am_todo' = LiveReports(outputs) \cup LiveVisualizations(outputs)
    /\ UNCHANGED << outputs, archived, live_writes >>
    /\ UNCHANGED outsideArchive

\* the files either loop can take next: the reports first
Listable(todo) ==
    {f \in todo : f.name.dir = "reports" \/ LiveReports(todo) = {}}

\* one shutil.move of the two loops
ArchiveMove(f) ==
    /\ am_pc = "moving"
    /\ f \in Listable(am_todo)
    /\ outputs' = outputs \ {f}
    /\ archived' = MoveInto(archived, am_target, f.name.dir, f)
    /\ am_todo' = am_todo \ {f}
    /\ UNCHANGED << archive_dirs, am_pc, am_target, am_ret, last_call,
                    live_writes >>
    /\ UNCHANGED outsideArchive

\* shutil.move raises: nothing catches it inside archive_previous_run
ArchiveMoveRaises ==
    /\ am_pc = "moving"
    /\ am_todo # {}
    /\ am_pc' = "idle"
    /\ am_todo' = {}
    /\ am_ret' = Raised
    /\ UNCHANGED << outputs, archive_dirs, archived, am_target, last_call,
                    live_writes >>
    /\ UNCHANGED outsideArchive

\* both loops done: return archive_folder
ArchiveReturn ==
    /\ am_pc = "moving"
    /\ am_todo = {}
    /\ am_pc' = "idle"
    /\ am_ret' = Handle(am_target)
    /\ UNCHANGED << outputs, archive_dirs, archived, am_target, am_todo,
                    last_call, live_writes >>
    /\ UNCHANGED outsideArchive

\* clean_old_archives(keep_last_n)
CleanCall(keep_last_n) ==
    /\ am_pc = "idle"
    /\ last_call' = CallRecord("clean", keep_last_n, outputs, archive_dirs,
                               archived)
    /\ LET archive_runs == SortedRuns(archive_dirs)
           to_delete == IF Len(archive_runs) <= keep_last_n
                        THEN {}
                        ELSE Elements(ToDelete(archive_runs, keep_last_n))
       IN /\ archive_dirs' = archive_dirs \ to_delete
          /\ archived' = {x \in archived : x.run \notin to_delete}
    /\ am_ret' = ReturnedNone
    /\ UNCHANGED << outputs, am_pc, am_target, am_todo, live_writes >>
    /\ UNCHANGED outsideArchive

\* the program writes a result file, a summary or a chart under outputs/
ProgramWrites ==
    /\ am_pc = "idle"
    /\ live_writes < MaxLiveWrites
    /\ live_writes' = live_writes + 1
    /\ \E name \in LiveNames :
          outputs' = WriteFile(outputs, name,
                               [producer |-> name.stem, run |-> live_writes'],
                               live_writes')
    /\ last_call' = CallRecord("write", live_writes', {}, {}, {})
    /\ UNCHANGED << archive_dirs, archived, am_pc, am_target, am_todo,
                    am_ret >>
    /\ UNCHANGED outsideArchive

ArchiveInit ==
    /\ agents = Stages
    /\ PipelineInit
    /\ EnvInit

\* the methods of ArchiveManager called in any order, by any caller
ArchiveNext ==
    \/ \E ts \in 1..MaxArchiveStamp : ArchiveCall(ts) /\ UNCHANGED mainVars
    \/ \E f \in am_todo : ArchiveMove(f) /\ UNCHANGED mainVars
    \/ ArchiveMoveRaises /\ UNCHANGED mainVars
    \/ ArchiveReturn /\ UNCHANGED mainVars
    \/ \E keep_last_n \in 0..MaxKeep :
          CleanCall(keep_last_n) /\ UNCHANGED mainVars
    \/ ProgramWrites /\ UNCHANGED mainVars

ArchiveSpec == ArchiveInit /\ [][ArchiveNext]_<< vars, envVars >>

(***************************************************************************)
(* Vocabulary of the properties about archives.                            *)
(***************************************************************************)
\* the files inside one archive folder
Contents(arch, run) == {x \in arch : x.run = run}

\* the copies of a live file inside one archive folder
CopiesIn(arch, run, f) ==
    {x \in Contents(arch, run) :
        x.file = [stem |-> f.name.stem, ts |-> f.name.ts] /\ x.doc = f.doc}

Smaller(a, b) == IF a <= b THEN a ELSE b

\* archive_previous_run is still filling a folder that it created itself
BeingCreated(run) ==
    /\ am_pc = "moving"
    /\ am_target = run
    /\ run \notin last_call.dirs

(***************************************************************************)
(* C14: archive_previous_run with nothing in outputs/reports and           *)
(* outputs/visualizations returns None, creates no archive folder and      *)
(* leaves the live files and the existing archives as they were.           *)
(***************************************************************************)
C14_EmptyArchiveIsNoOp ==
    (last_call.op = "archive" /\ last_call.outputs = {})
        => /\ am_ret = ReturnedNone
           /\ am_pc = "idle"
           /\ outputs = {}
           /\ archive_dirs = last_call.dirs
           /\ archived = last_call.archived

C14_Witness ==
    /\ last_call.op = "archive"
    /\ last_call.outputs = {}
    /\ last_call.dirs # {}
    /\ last_call.arg \notin last_call.dirs
    /\ am_ret = ReturnedNone

(***************************************************************************)
(* C15: when archive_previous_run returns its folder, every file that was  *)
(* live before the call is in that folder exactly once, under the          *)
(* directory it came from, and no file is live any more.                   *)
(***************************************************************************)
C15_ArchiveMovesEverything ==
    (last_call.op = "archive" /\ am_ret.kind = "handle")
        => /\ outputs = {}
           /\ \A f \in last_call.outputs :
                 /\ Cardinality(CopiesIn(archived, am_ret.run, f)) = 1
                 /\ \A x \in CopiesIn(archived, am_ret.run, f) :
                       x.dir = f.name.dir

C15_Witness ==
    /\ last_call.op = "archive"
    /\ am_ret.kind = "handle"
    /\ LiveReports(last_call.outputs) # {}
    /\ LiveVisualizations(last_call.outputs) # {}
    /\ outputs = {}

(***************************************************************************)
(* C16: a file move that fails inside archive_previous_run does not make   *)
(* the call raise; the call goes on and returns the archive folder.        *)
(***************************************************************************)
C16_MoveFailureNotRaised ==
    last_call.op = "archive" => am_ret # Raised

(***************************************************************************)
(* C17: after clean_old_archives(keep_last_n) over M archive folders,      *)
(* exactly min(M, keep_last_n) folders remain, and every remaining folder  *)
(* is more recent than every deleted one.                                  *)
(***************************************************************************)
C17_KeepsMostRecent ==
    last_call.op = "clean"
        => /\ archive_dirs \subseteq last_call.dirs
           /\ Cardinality(archive_dirs)
                 = Smaller(Cardinality(last_call.dirs), last_call.arg)
           /\ \A kept \in archive_dirs :
                 \A deleted \in last_call.dirs \ archive_dirs : deleted < kept

(***************************************************************************)
(* C18: the contents of an archive folder that exists and is not being     *)
(* created by the call in progress never change; a folder only disappears  *)
(* with all its files.                                                     *)
(***************************************************************************)
C18_ArchivesImmutable ==
    [][\A run \in archive_dirs :
          /\ (run \in archive_dirs' /\ ~BeingCreated(run))
                => Contents(archived', run) = Contents(archived, run)
          /\ run \notin archive_dirs' => Contents(archived', run) = {}
      ]_<< vars, envVars >>

(***************************************************************************)
(* main(): archive the previous run, prune the archives, build the agents, *)
(* run the pipeline and list the archives; with --agent, build the agents, *)
(* run the one agent and save its result.  The program is started again    *)
(* after it ends.                                                          *)
(***************************************************************************)
MaxMains == 2

\* where main goes once archive_previous_run has been called
AfterArchiveCall_RunFirst(ret) == "init_agents"

AfterArchiveCall(ret) ==
    IF ret = ReturnedNone THEN "init_agents" ELSE "archiving"

\* if not args.no_archive and not args.agent
ArchivesFirst_IgnoresAgent(a) == ~a.no_archive

ArchivesFirst(a) == ~a.no_archive /\ a.agent = ""

\* the process is started: parse_args and run_timestamp
MainStart ==
    /\ main_pc \in {"start", "ended", "exited"}
    /\ mains < MaxMains
    /\ rs_pc = "idle"
    /\ am_pc = "idle"
    /\ mains' = mains + 1
    /\ run_timestamp' = clock
    /\ \E no_archive \in BOOLEAN, keep_archives \in 0..MaxKeep :
          /\ args' = [no_archive |-> no_archive,
                      keep_archives |-> keep_archives, agent |-> ""]
          /\ main_pc' = IF ArchivesFirst(args') THEN "archive"
                                                ELSE "init_agents"
    /\ run_begun' = FALSE
    /\ single_log' = [calls |-> << >>, written |-> {}]
    /\ UNCHANGED << vars, runVars, storeVars, archVars, rulesVars,
                    malformed >>

\* archive_mgr.archive_previous_run(run_timestamp)
MainArchive ==
    /\ main_pc = "archive"
    /\ ArchiveCall(run_timestamp)
    /\ main_pc' = AfterArchiveCall(am_ret')
    /\ UNCHANGED << run_timestamp, args, mains, run_begun, single_log >>

\* the moves of one call, in the order the two glob lists have for this
\* directory content: one order per content
MainArchiveMove ==
    /\ main_pc = "archiving"
    /\ am_todo # {}
    /\ ArchiveMove(CHOOSE f \in Listable(am_todo) : TRUE)
    /\ UNCHANGED mainVars

\* the exception reaches `except Exception` of main: sys.exit(1)
MainArchiveRaises ==
    /\ main_pc = "archiving"
    /\ ArchiveMoveRaises
    /\ main_pc' = "exited"
    /\ UNCHANGED << run_timestamp, args, mains, run_begun, single_log >>

\* archived_folder is a path: go on to clean_old_archives
MainArchiveReturn ==
    /\ main_pc = "archiving"
    /\ ArchiveReturn
    /\ main_pc' = "clean"
    /\ UNCHANGED << run_timestamp, args, mains, run_begun, single_log >>

\* archive_mgr.clean_old_archives(keep_last_n=args.keep_archives)
MainClean ==
    /\ main_pc = "clean"
    /\ CleanCall(args.keep_archives)
    /\ main_pc' = "init_agents"
    /\ UNCHANGED << run_timestamp, args, mains, run_begun, single_log >>

\* AnthropicClient() and the ten agents
MainInitAgents ==
    /\ main_pc = "init_agents"
    /\ main_pc' = IF args.agent = "" THEN "run" ELSE "single"
    /\ UNCHANGED << run_timestamp, args, mains, run_begun, single_log >>
    /\ UNCHANGED << vars, runVars, storeVars, archVars, rulesVars,
                    malformed >>

\* AnthropicClient() raises (no API key): sys.exit(1)
MainInitRaises ==
    /\ main_pc = "init_agents"
    /\ main_pc' = "exited"
    /\ UNCHANGED << run_timestamp, args, mains, run_begun, single_log >>
    /\ UNCHANGED << vars, runVars, storeVars, archVars, rulesVars,
                    malformed >>

\* results = await master.run_full_analysis()
MainRunStart ==
    /\ main_pc = "run"
    /\ RunStart
    /\ main_pc' = "running"
    /\ run_begun' = TRUE
    /\ UNCHANGED << run_timestamp, args, mains, single_log >>

MainStageSucceeds ==
    /\ main_pc = "running"
    /\ StageSucceeds
    /\ UNCHANGED mainVars

MainStageFails ==
    /\ main_pc = "running"
    /\ StageFails
    /\ UNCHANGED mainVars

MainRunReturns ==
    /\ main_pc = "running"
    /\ RunWritesSummary
    /\ main_pc' = "list"
    /\ UNCHANGED << run_timestamp, args, mains, run_begun, single_log >>

\* archive_mgr.list_archives() for the closing log lines: reads only
MainListArchives ==
    /\ main_pc = "list"
    /\ main_pc' = "ended"
    /\ UNCHANGED << run_timestamp, args, mains, run_begun, single_log >>
    /\ UNCHANGED << vars, runVars, storeVars, archVars, rulesVars,
                    malformed >>

MainTick ==
    /\ Tick
    /\ UNCHANGED mainVars

\* the values of --agent followed here: two stages and a name that is not
\* a key of the agents dict
SingleAgents ==
    { "market_size", "visualization_reporting", "no_such_agent" }

\* the process is started with --agent
MainStartSingle ==
    /\ main_pc \in {"start", "ended", "exited"}
    /\ mains < MaxMains
    /\ rs_pc = "idle"
    /\ am_pc = "idle"
    /\ mains' = mains + 1
    /\ run_timestamp' = clock
    /\ \E no_archive \in BOOLEAN, agent \in SingleAgents :
          /\ args' = [no_archive |-> no_archive, keep_archives |-> MaxKeep,
                      agent |-> agent]
          /\ main_pc' = IF ArchivesFirst(args') THEN "archive"
                                                ELSE "init_agents"
    /\ run_begun' = FALSE
    /\ single_log' = [calls |-> << >>, written |-> {}]
    /\ UNCHANGED << vars, runVars, storeVars, archVars, rulesVars,
                    malformed >>

\* if args.agent not in agents: log and return
MainSingleUnknown ==
    /\ main_pc = "single"
    /\ args.agent \notin Stages
    /\ main_pc' = "ended"
    /\ UNCHANGED << run_timestamp, args, mains, run_begun, single_log >>
    /\ UNCHANGED << vars, runVars, storeVars, archVars, rulesVars,
                    malformed >>

\* what execute({}) of one agent leaves under outputs/: with an empty
\* context the visualization agent writes its executive summary only
SingleExecuteWrites(files, agent_name) ==
    IF agent_name = "visualization_reporting"
    THEN WriteFile(files, VizName(Len(VizFiles), clock),
                   [producer |-> agent_name, run |-> 0], 0)
    ELSE files

\* result = await agent.execute({}) returns
MainSingleExecute ==
    /\ main_pc = "single"
    /\ args.agent \in Stages
    /\ single_log' = [single_log EXCEPT
          !.calls = Append(@, [agent |-> args.agent, context |-> {}])]
    /\ outputs' = SingleExecuteWrites(outputs, args.agent)
    /\ main_pc' = "single_save"
    /\ UNCHANGED << run_timestamp, args, mains, run_begun >>
    /\ UNCHANGED << clock, run_timestamps, rs_pc, rs_idx, rs_failed,
                    save_log >>
    /\ UNCHANGED << vars, storeVars, archVars, rulesVars, malformed >>

\* agent.execute({}) raises: except Exception of main, sys.exit(1)
MainSingleRaises ==
    /\ main_pc = "single"
    /\ args.agent \in Stages
    /\ single_log' = [single_log EXCEPT
          !.calls = Append(@, [agent |-> args.agent, context |-> {}])]
    /\ main_pc' = "exited"
    /\ UNCHANGED << run_timestamp, args, mains, run_begun >>
    /\ UNCHANGED << vars, runVars, storeVars, archVars, rulesVars,
                    malformed >>

\* await save_result(args.agent, result), with a timestamp of its own
MainSaveResult ==
    /\ main_pc = "single_save"
    /\ outputs' = WriteFile(outputs, ResultName(args.agent, clock),
                            [producer |-> args.agent, run |-> 0], 0)
    /\ single_log' = [single_log EXCEPT
          !.written = @ \cup {ResultName(args.agent, clock)}]
    /\ main_pc' = "ended"
    /\ UNCHANGED << run_timestamp, args, mains, run_begun >>
    /\ UNCHANGED << clock, run_timestamps, rs_pc, rs_idx, rs_failed,
                    save_log >>
    /\ UNCHANGED << vars, storeVars, archVars, rulesVars, malformed >>

\* the timestamp of an invocation before the ones followed here
EarlierStamp == 0

\* the archive that earlier invocation made of the run before it
EarlierArchive ==
    { ArchivedFile(EarlierStamp, "reports",
                   [name |-> SummaryName(EarlierStamp),
                    doc |-> [producer |-> "summary", run |-> EarlierStamp]]) }

\* a result file that earlier invocation's run left under outputs/reports
EarlierLive ==
    { [name |-> ResultName(execution_order[1], EarlierStamp),
       doc |-> RunDocument(execution_order[1], EarlierStamp),
       run |-> EarlierStamp] }

\* the program is started with one archive folder under outputs/archives,
\* and with outputs/reports and outputs/visualizations empty or holding a
\* file of the earlier run
MainInit ==
    /\ agents = Stages
    /\ PipelineInit
    /\ clock = 1
    /\ run_timestamps = << >>
    /\ rs_pc = "idle"
    /\ rs_idx = 1
    /\ rs_failed = 0
    /\ outputs \in { {}, EarlierLive }
    /\ save_log = << >>
    /\ StoreVarsIdle
    /\ MainVarsInit
    /\ RulesVarsIdle
    /\ archive_dirs = {EarlierStamp}
    /\ archived = EarlierArchive
    /\ am_pc = "idle"
    /\ am_target = 1
    /\ am_todo = {}
    /\ am_ret = NoCall
    /\ last_call = CallRecord("none", 1, {}, {}, {})
    /\ live_writes = 0

MainNext ==
    \/ MainStart
    \/ MainArchive
    \/ MainArchiveMove
    \/ MainArchiveRaises
    \/ MainArchiveReturn
    \/ MainClean
    \/ MainInitAgents
    \/ MainInitRaises
    \/ MainRunStart
    \/ MainStageSucceeds
    \/ MainStageFails
    \/ MainRunReturns
    \/ MainListArchives
    \/ MainTick
    \/ MainStartSingle
    \/ MainSingleUnknown
    \/ MainSingleExecute
    \/ MainSingleRaises
    \/ MainSaveResult

MainSpec == MainInit /\ [][MainNext]_<< vars, envVars >>

(***************************************************************************)
(* Vocabulary of the properties about main.                                *)
(***************************************************************************)
\* this step moves a file into an archive, creates or deletes a folder
ArchiveChanges == archived' # archived \/ archive_dirs' # archive_dirs

\* this step starts the pipeline, ends a stage worker or writes a result
PipelineWorks ==
    \/ run_timestamps' # run_timestamps
    \/ rs_idx' # rs_idx
    \/ outputs' \ outputs # {}

\* archive_previous_run and, after a returned folder, clean_old_archives
\* have both returned
ArchivingComplete ==
    /\ am_pc = "idle"
    /\ am_todo = {}
    /\ am_ret.kind \notin {"pending", "handle"}

(***************************************************************************)
(* C19: in a full run through main, every archive move and every archive   *)
(* deletion happens before the pipeline of that invocation starts, and the *)
(* pipeline starts, invokes workers and writes results only once archiving *)
(* and pruning have returned.                                              *)
(***************************************************************************)
C19_ArchivingBeforePipeline ==
    [][/\ ArchiveChanges => (~run_begun /\ ~run_begun' /\ rs_pc = "idle")
       /\ PipelineWorks => (ArchivingComplete /\ am_pc' = "idle")
      ]_<< vars, envVars >>

C19_Witness ==
    /\ main_pc = "running"
    /\ ~args.no_archive
    /\ last_call.op = "clean"
    /\ last_call.dirs \ archive_dirs # {}
    /\ Contents(archived, run_timestamp) # {}
    /\ \E f \in outputs : f.run = this_run

(***************************************************************************)
(* The two citation validators: SourceRules.validate_citation over its     *)
(* configuration file and SourceValidator.validate_url over its constants. *)
(* A URL is a sequence of pieces; `p in url` is p occurring as consecutive *)
(* pieces of it.                                                           *)
(***************************************************************************)
MaxUrlLen == 2

UrlPieces ==
    { "blog.", "BLOG.", "ieee.org", "IEEE.ORG", "medium.com",
      "linkedin.com", "/pulse", "/blog/", "example.com", "amd.com",
      "/post" }

Urls == UNION { [1..n -> UrlPieces] : n \in 0..MaxUrlLen }

\* str.lower() of one piece
LowerPiece(piece) ==
    CASE piece = "BLOG." -> "blog."
      [] piece = "IEEE.ORG" -> "ieee.org"
      [] OTHER -> piece

\* url.lower()
LowerUrl(url) == [i \in DOMAIN url |-> LowerPiece(url[i])]

\* `fragment in text`
Occurs(fragment, text) ==
    \E i \in 1..(Len(text) - Len(fragment) + 1) :
        SubSeq(text, i, i + Len(fragment) - 1) = fragment

\* SourceValidator.ALLOWED_DOMAINS; 'amd.com' 'tesla.com' has no comma
\* between the two literals and is one string
ALLOWED_DOMAINS ==
    << << "ieee.org" >>, << "arxiv.org" >>, << "acm.org" >>, << "sae.org" >>,
       << "jpmorgan.com" >>, << "goldmansachs.com" >>,
       << "morganstanley.com" >>,
       << "ti.com" >>, << "nxp.com" >>, << "infineon.com" >>,
       << "qualcomm.com" >>, << "nvidia.com" >>, << "intel.com" >>,
       << "amd.com", "tesla.com" >>,
       << "gm.com" >>, << "ford.com" >>, << "rivian.com" >> >>

\* SourceValidator.EXCLUDED_PATTERNS, searched with re.IGNORECASE
EXCLUDED_PATTERNS ==
    << << "blog." >>, << "/blog/" >>, << "medium.com" >>,
       << "linkedin.com", "/pulse" >>, << "twitter.com" >>,
       << "facebook.com" >> >>

\* re.search(pattern, url, re.IGNORECASE) for some pattern of the list
MatchesExcludedPattern(url) ==
    \E k \in DOMAIN EXCLUDED_PATTERNS :
        Occurs(EXCLUDED_PATTERNS[k], LowerUrl(url))

\* domain in url.lower() for some domain of the list
MatchesAllowedDomain(url) ==
    \E k \in DOMAIN ALLOWED_DOMAINS : Occurs(ALLOWED_DOMAINS[k], LowerUrl(url))

\* SourceValidator.validate_url
validate_url(url) ==
    IF MatchesExcludedPattern(url)
    THEN [valid |-> FALSE, reason |-> "Matches excluded pattern"]
    ELSE IF MatchesAllowedDomain(url)
    THEN [valid |-> TRUE, reason |-> "Matches allowed domain"]
    ELSE [valid |-> FALSE, reason |-> "Domain not allowed list"]

\* allowed_sources.json, the rows in the order is_allowed_domain reads them
config_domains ==
    << [category |-> "academic", source |-> "ieee",
        domain |-> << "ieee.org" >>, credibility |-> "high"],
       [category |-> "financial_research", source |-> "jpmorgan",
        domain |-> << "jpmorgan.com" >>, credibility |-> "high"],
       [category |-> "semiconductor_vendor", source |-> "amd",
        domain |-> << "amd.com" >>, credibility |-> "medium"],
       [category |-> "oem", source |-> "tesla",
        domain |-> << "tesla.com" >>, credibility |-> "medium"],
       [category |-> "tier1", source |-> "bosch",
        domain |-> << "bosch.com" >>, credibility |-> "medium"] >>

\* allowed_sources.json, excluded_patterns
config_excluded_patterns ==
    << << "blog." >>, << "/blog/" >>, << "medium.com" >>,
       << "linkedin.com", "/pulse" >> >>

\* SourceRules.is_excluded
is_excluded(url) ==
    \E k \in DOMAIN config_excluded_patterns :
        Occurs(config_excluded_patterns[k], LowerUrl(url))

\* the rows of the configuration whose domain occurs in the lowered url
AllowRows(url) ==
    {k \in DOMAIN config_domains :
        Occurs(config_domains[k].domain, LowerUrl(url))}

\* SourceRules.is_allowed_domain: the first row that matches
is_allowed_domain_LastMatch(url) ==
    IF AllowRows(url) = {}
    THEN [allowed |-> FALSE, category |-> "", source |-> "",
          credibility |-> ""]
    ELSE LET k == CHOOSE r \in AllowRows(url) : \A o \in AllowRows(url) : r >= o
         IN [allowed |-> TRUE, category |-> config_domains[k].category,
             source |-> config_domains[k].source,
             credibility |-> config_domains[k].credibility]

is_allowed_domain(url) ==
    IF AllowRows(url) = {}
    THEN [allowed |-> FALSE, category |-> "", source |-> "",
          credibility |-> ""]
    ELSE LET k == CHOOSE r \in AllowRows(url) : \A o \in AllowRows(url) : r <= o
         IN [allowed |-> TRUE, category |-> config_domains[k].category,
             source |-> config_domains[k].source,
             credibility |-> config_domains[k].credibility]

\* the warnings for the recommended fields
Warnings(c) ==
    {field \in {"claim", "date_accessed"} : ~c[field]}

\* SourceRules.validate_citation
validate_citation_StrictFields(c) ==
    IF c.url = << >>
    THEN [valid |-> FALSE, error |-> "Missing URL", category |-> "",
          source |-> "", credibility |-> "", warnings |-> {}]
    ELSE IF is_excluded(c.url)
    THEN [valid |-> FALSE, error |-> "Excluded pattern", category |-> "",
          source |-> "", credibility |-> "", warnings |-> {}]
    ELSE IF ~is_allowed_domain(c.url).allowed
    THEN [valid |-> FALSE, error |-> "Domain not in allowed list",
          category |-> "", source |-> "", credibility |-> "",
          warnings |-> {}]
    ELSE [valid |-> Warnings(c) = {}, error |-> "",
          category |-> is_allowed_domain(c.url).category,
          source |-> is_allowed_domain(c.url).source,
          credibility |-> is_allowed_domain(c.url).credibility,
          warnings |-> Warnings(c)]

validate_citation_AllowFirst(c) ==
    IF c.url = << >>
    THEN [valid |-> FALSE, error |-> "Missing URL", category |-> "",
          source |-> "", credibility |-> "", warnings |-> {}]
    ELSE IF is_allowed_domain(c.url).allowed
    THEN [valid |-> TRUE, error |-> "",
          category |-> is_allowed_domain(c.url).category,
          source |-> is_allowed_domain(c.url).source,
          credibility |-> is_allowed_domain(c.url).credibility,
          warnings |-> Warnings(c)]
    ELSE [valid |-> FALSE, error |-> "Domain not in allowed list",
          category |-> "", source |-> "", credibility |-> "",
          warnings |-> {}]

validate_citation(c) ==
    IF c.url = << >>
    THEN [valid |-> FALSE, error |-> "Missing URL", category |-> "",
          source |-> "", credibility |-> "", warnings |-> {}]
    ELSE IF is_excluded(c.url)
    THEN [valid |-> FALSE, error |-> "Excluded pattern", category |-> "",
          source |-> "", credibility |-> "", warnings |-> {}]
    ELSE IF ~is_allowed_domain(c.url).allowed
    THEN [valid |-> FALSE, error |-> "Domain not in allowed list",
          category |-> "", source |-> "", credibility |-> "",
          warnings |-> {}]
    ELSE [valid |-> TRUE, error |-> "",
          category |-> is_allowed_domain(c.url).category,
          source |-> is_allowed_domain(c.url).source,
          credibility |-> is_allowed_domain(c.url).credibility,
          warnings |-> Warnings(c)]

\* rules.validate_citation(citation) is called
ValidateCitation ==
    /\ sr_result = NotValidated
    /\ sr_result' = validate_citation(citation)
    /\ UNCHANGED << citation, sv_result >>
    /\ UNCHANGED << vars, runVars, storeVars, archVars, mainVars,
                    malformed >>

\* keys a citation dict may have besides url, claim and date_accessed
OtherKeys == { "source", "claim " }

\* the keys of the citation that are there with a non-empty value; an
\* absent url is the empty sequence
Present(c) ==
    c.keys \cup (IF c.url # << >> THEN {"url"} ELSE {})
           \cup (IF c.claim THEN {"claim"} ELSE {})
           \cup (IF c.date_accessed THEN {"date_accessed"} ELSE {})

\* required_fields of SourceValidator.validate_citation
required_fields == << "source", "url", "date_accessed", "claim " >>

\* SourceValidator.validate_citation
SourceValidator_validate_citation(c) ==
    LET missing == SelectSeq(required_fields, LAMBDA f : f \notin Present(c))
        checked == validate_url(c.url)
    IN  IF "url" \in Present(c)
        THEN [valid |-> missing = << >> /\ checked.valid,
              missing_fields |-> missing,
              url_valid |-> checked.valid,
              url_reason |-> checked.reason]
        ELSE [valid |-> missing = << >>,
              missing_fields |-> missing,
              url_valid |-> TRUE,
              url_reason |-> ""]

\* validator.validate_citation(citation) is called
ValidatorValidateCitation ==
    /\ sv_result = NotValidated
    /\ sv_result' = SourceValidator_validate_citation(citation)
    /\ UNCHANGED << citation, sr_result >>
    /\ UNCHANGED << vars, runVars, storeVars, archVars, mainVars,
                    malformed >>

\* validator.validate_url(citation['url']) is called
ValidateUrl ==
    /\ sv_result = NotValidated
    /\ citation.url # << >>
    /\ sv_result' = validate_url(citation.url)
    /\ UNCHANGED << citation, sr_result >>
    /\ UNCHANGED << vars, runVars, storeVars, archVars, mainVars,
                    malformed >>

RulesInit ==
    /\ agents = Stages
    /\ PipelineInit
    /\ RunVarsInit
    /\ StoreVarsIdle
    /\ ArchVarsInit
    /\ MainVarsInit
    /\ citation \in [url : Urls, claim : BOOLEAN, date_accessed : BOOLEAN,
                     keys : SUBSET OtherKeys]
    /\ sr_result = NotValidated
    /\ sv_result = NotValidated

RulesNext ==
    \/ ValidateCitation
    \/ ValidateUrl
    \/ ValidatorValidateCitation

RulesSpec == RulesInit /\ [][RulesNext]_<< vars, envVars >>

(***************************************************************************)
(* C20: a URL that matches an exclusion pattern and an allow-listed domain *)
(* is not allowed by validate_url, and a citation with such a URL is not   *)
(* valid for validate_citation: the exclusion is checked first.            *)
(***************************************************************************)
C20_ExclusionWins ==
    /\ (sv_result # NotValidated
          /\ MatchesExcludedPattern(citation.url)
          /\ MatchesAllowedDomain(citation.url))
        => ~sv_result.valid
    /\ (sr_result # NotValidated
          /\ is_excluded(citation.url)
          /\ is_allowed_domain(citation.url).allowed)
        => ~sr_result.valid

C20_Witness ==
    /\ citation.url = << "blog.", "ieee.org" >>
    /\ sv_result # NotValidated
    /\ sr_result # NotValidated
    /\ ~sv_result.valid
    /\ ~sr_result.valid

(***************************************************************************)
(* Vocabulary of the properties about the allow-list.                      *)
(***************************************************************************)
\* the order in which is_allowed_domain is to try the categories
CategoryOrder ==
    << "academic", "financial_research", "semiconductor_vendor", "oem",
       "tier1" >>

\* the categories with a configured domain occurring in the url
MatchedCategories(url) ==
    {config_domains[k].category : k \in AllowRows(url)}

\* the first category of the order among the matched ones
FirstCategory(url) ==
    CategoryOrder[CHOOSE i \in DOMAIN CategoryOrder :
        /\ CategoryOrder[i] \in MatchedCategories(url)
        /\ \A j \in DOMAIN CategoryOrder :
              CategoryOrder[j] \in MatchedCategories(url) => i <= j]

(***************************************************************************)
(* C21: for a URL that is not excluded, is_allowed_domain returns the      *)
(* first category, in the order academic, financial_research,              *)
(* semiconductor_vendor, oem, tier1, that has a domain matching the URL;   *)
(* with no matching domain it returns not allowed, with empty category and *)
(* source name.                                                            *)
(***************************************************************************)
C21_FirstCategoryWins ==
    (sr_result # NotValidated /\ citation.url # << >>
        /\ ~is_excluded(citation.url))
      => IF MatchedCategories(citation.url) = {}
         THEN /\ is_allowed_domain(citation.url)
                    = [allowed |-> FALSE, category |-> "", source |-> "",
                       credibility |-> ""]
              /\ ~sr_result.valid
              /\ sr_result.category = ""
              /\ sr_result.source = ""
         ELSE /\ is_allowed_domain(citation.url).allowed
              /\ is_allowed_domain(citation.url).category
                    = FirstCategory(citation.url)
              /\ sr_result.category = FirstCategory(citation.url)

C21_Witness ==
    /\ citation.url = << "amd.com", "ieee.org" >>
    /\ sr_result # NotValidated
    /\ sr_result.category = "academic"

(***************************************************************************)
(* C22: validate_citation returns valid=false exactly when the URL is      *)
(* missing or empty, is excluded, or matches no allowed domain; a missing  *)
(* claim or date_accessed is a warning on the valid result and never makes *)
(* it invalid; a valid result has the matched category and a credibility.  *)
(***************************************************************************)
C22_ValidExactlyWhenUrlPasses ==
    sr_result # NotValidated
      => /\ ~sr_result.valid
               <=> \/ citation.url = << >>
                   \/ is_excluded(citation.url)
                   \/ MatchedCategories(citation.url) = {}
         /\ sr_result.valid
               => /\ sr_result.warnings
                        = {f \in {"claim", "date_accessed"} : ~citation[f]}
                  /\ sr_result.category \in MatchedCategories(citation.url)
                  /\ sr_result.credibility \in {"high", "medium"}

C22_Witness ==
    /\ sr_result # NotValidated
    /\ sr_result.valid
    /\ ~citation.claim
    /\ ~citation.date_accessed
    /\ sr_result.warnings = {"claim", "date_accessed"}

(***************************************************************************)
(* One stage run through main (--agent).                                   *)
(***************************************************************************)
\* this invocation of main was given --agent
SingleMode == args.agent # ""

\* the files this step adds under outputs/
NewFiles == { f.name : f \in outputs' } \ { f.name : f \in outputs }

\* the files the agents write themselves (charts, data, executive summary)
WorkerFiles == { VizName(k, t) : k \in 1..Len(VizFiles), t \in 0..MaxClock }

C24_IndexMatchesWrittenFiles ==
    pc \in {"summary", "done"} =>
        \A a \in Stages : a \in summary.results_files <=> reports[a].exists

\* C25: a stage whose worker got a response that does not parse ends with a
\* failed outcome: once it is logged, its log entry is a failure (so it is
\* counted in agents_failed, not in agents_executed) and its context entry
\* is the absent marker.
C25_MalformedOutputFails ==
    \A a \in malformed :
        Logged(a) =>
            /\ LoggedFailure(a)
            /\ ~LoggedSuccess(a)
            /\ context[a] = Absent

(***************************************************************************)
(* SourceValidator.validate_citation.                                      *)
(***************************************************************************)
\* the four fields a citation is documented to need
CitationFields == { "source", "url", "date_accessed", "claim" }

\* a missing field counts as listed under its name, with or without the
\* trailing space of the required_fields entry
Spellings(f) == IF f = "claim" THEN { "claim", "claim " } ELSE { f }

\* sv_result is a result of SourceValidator.validate_citation
CitationChecked == "missing_fields" \in DOMAIN sv_result

\* C26: SourceValidator.validate_citation returns valid = true for a
\* citation with non-empty source, url, date_accessed and claim whose URL
\* passes validate_url, and valid = false with the field listed when one of
\* the four is absent.
C26_ValidatorAcceptsCompleteCitations ==
    CitationChecked =>
        /\ (CitationFields \subseteq Present(citation)
              /\ validate_url(citation.url).valid) => sv_result.valid
        /\ \A f \in CitationFields \ Present(citation) :
              /\ ~sv_result.valid
              /\ \E i \in DOMAIN sv_result.missing_fields :
                    sv_result.missing_fields[i] \in Spellings(f)

(***************************************************************************)
(* Log, counters and the effects of a failure.                             *)
(***************************************************************************)
\* C27: at every point of a run, a stage logged with success = true has its
\* whole result file on disk already, and no more stages are counted in
\* agents_executed than have one.
C27_LoggedAfterPersisted ==
    /\ \A i \in 1..Len(execution_log) :
          execution_log[i].success => ResultWritten(execution_log[i].agent)
    /\ agents_executed <= Cardinality({ a \in Stages : ResultWritten(a) })

\* one stage is logged as succeeded while the result file of a later one
\* is still being written
C27_Witness ==
    /\ pc = "save_write"
    /\ ~ResultWritten(current)
    /\ reports[current].exists
    /\ \E a \in Stages : LoggedSuccess(a)

\* C28: agents_executed is the number of success entries of the log and
\* agents_failed the number of failure entries; their sum is the length of
\* the log, which after each iteration is the number of registered stages
\* among those the loop has been through, and never more than the length
\* of the execution order.
C28_CountersMatchLog ==
    /\ agents_executed = CountSuccess(execution_log, TRUE)
    /\ agents_failed = CountSuccess(execution_log, FALSE)
    /\ agents_executed + agents_failed = Len(execution_log)
    /\ pc = "loop" => Len(execution_log) = Len(RegisteredPrefix(idx - 1))
    /\ Len(execution_log) <= Len(execution_order)

\* between two iterations, after a success, a failure and a skipped stage
C28_Witness ==
    /\ pc = "loop"
    /\ agents_executed >= 1
    /\ agents_failed >= 1
    /\ Len(execution_log) < idx - 1

\* the stages the loop has been through
Before(k) == { execution_order[m] : m \in 1..(k - 1) }

\* this step appends a failure to the log
FailureStep ==
    /\ Len(execution_log') = Len(execution_log) + 1
    /\ ~execution_log'[Len(execution_log')].success

\* C29: no step of a run changes the result file, the context entry or the
\* result of a stage before the current one, or a log entry already there;
\* and the step in which stage k fails changes nothing but this: the
\* context entry of k becomes the absent marker, the result of k the error
\* result, one failure entry for k is appended and counted, and the loop
\* moves on.
C29_FailureFrame ==
    [][/\ idx \in 1..NumStages =>
            \A a \in Before(idx) :
               /\ reports'[a] = reports[a]
               /\ context'[a] = context[a]
               /\ results'[a] = results[a]
       /\ SubSeq(execution_log', 1, Len(execution_log)) = execution_log
       /\ FailureStep =>
            /\ context' = [context EXCEPT ![current] = Absent]
            /\ results' = [results EXCEPT ![current] = ErrorResult]
            /\ execution_log' =
                  Append(execution_log, [agent |-> current, success |-> FALSE])
            /\ agents_failed' = agents_failed + 1
            /\ UNCHANGED << reports, agents_executed, agents, summary,
                            summary_file >>
      ]_vars

\* a stage has just failed after an earlier one succeeded: the earlier
\* stage's file and context entry are there, the failed one's entry is the
\* absent marker
C29_Witness ==
    /\ pc = "loop"
    /\ idx >= 3
    /\ execution_log # << >>
    /\ execution_log[Len(execution_log)] =
          [agent |-> execution_order[idx - 1], success |-> FALSE]
    /\ context[execution_order[idx - 1]] = Absent
    /\ results[execution_order[idx - 1]] = ErrorResult
    /\ \E a \in Before(idx - 1) :
          /\ ResultWritten(a)
          /\ context[a] = produced[a]

(***************************************************************************)
(* The number of archives kept.                                            *)
(***************************************************************************)
\* main started again and again for full runs, every time with the
\* --keep-archives value of the first invocation
KeepNext ==
    \/ MainStart /\ (mains = 0 \/ args'.keep_archives = args.keep_archives)
    \/ MainArchive
    \/ MainArchiveMove
    \/ MainArchiveRaises
    \/ MainArchiveReturn
    \/ MainClean
    \/ MainInitAgents
    \/ MainInitRaises
    \/ MainRunStart
    \/ MainStageSucceeds
    \/ MainStageFails
    \/ MainRunReturns
    \/ MainListArchives
    \/ MainTick

KeepSpec == MainInit /\ [][KeepNext]_<< vars, envVars >>

\* C30: over a sequence of full runs through main with keep-archives = N,
\* N >= 1, there are never more than N archive folders while the pipeline
\* of an invocation runs.
C30_ArchivesBounded ==
    (main_pc = "running" /\ args.keep_archives >= 1) =>
        Cardinality(archive_dirs) <= args.keep_archives

====
